---- MODULE Spec2Model ----
(***************************************************************************)
(* Model of monitor-scheduledtasks (src/main.py): the task source          *)
(* get_scheduled_tasks() and the poll loop monitor_scheduled_tasks().      *)
(*                                                                         *)
(* What the host answers to one call of get_scheduled_tasks() is the       *)
(* input of the collection actions; it is drawn from the sets below.       *)
(* Python dictionaries are records, Python lists are sequences, and the    *)
(* Python value None is the string "None".                                 *)
(***************************************************************************)
EXTENDS Integers, Sequences, FiniteSets, TLC

\* ------------------------------------------------------------------ bounds
\* Longest listing (stdout lines of the scheduler command) the host returns.
MaxTasks == 2
\* The count of consecutive failed cycles saturates here.
MaxFailures == 2

\* --------------------------------------------------------------- constants
None == "None"
NA == "N/A"
\* exit_code while the process is still running.
NotExited == -1

Platforms == {"Windows", "Linux", "Darwin"}

\* cron schedule fields (parts[:5] joined) and cron commands (parts[5:] joined)
Triggers == {"0 5 * * *", "0 0 * * *"}
Commands == {"backup.sh", "cleanup.sh"}
\* first whitespace-separated token of a Get-ScheduledTask output line
WinNames == {"TaskA", "TaskB"}

\* Exceptions raised inside get_scheduled_tasks: by Popen/communicate, or by
\* the code itself (IndexError at lines 68-74 when a matching line of the
\* per-task output has no colon).
Exceptions == {"FileNotFoundError", "OSError", "IndexError"}
\* The task names whose added/removed events the history variables count, one
\* per platform; the code treats all names alike and a name can stand at any
\* place of a snapshot.
Watched == {"backup.sh", "TaskA"}

\* Those that are defects of the program rather than failures of the host.
Defects == {"IndexError"}

\* ------------------------------------------------- what the host can answer
\* One line of `crontab -l`: a job (more than 5 fields), a comment or empty
\* line, or a line of at most 5 fields (e.g. MAILTO=root).
CronLines ==
    [kind : {"job"}, trigger_time : Triggers, command : Commands]
    \cup {[kind |-> "comment", trigger_time |-> None, command |-> None],
          [kind |-> "short", trigger_time |-> None, command |-> None]}

\* What the per-task query prints for one task; a field whose line is not in
\* the output is None.
WinDetails ==
    {[last_run_time |-> "2024-01-01", task_path |-> "\\", state |-> "Ready", actions |-> "a1"],
     [last_run_time |-> None, task_path |-> "\\Microsoft\\", state |-> "Disabled", actions |-> None]}

NoDetail == [last_run_time |-> None, task_path |-> None, state |-> None, actions |-> None]

\* One line of the Get-ScheduledTask listing together with the answer of the
\* per-task query the code runs for it: the header line, a blank line, a task
\* whose query wrote to stderr, or a task whose query printed its details.
WinLines ==
    {[kind |-> k, task_name |-> None, stderr |-> FALSE, detail |-> NoDetail] : k \in {"header", "blank"}}
    \cup {[kind |-> "task", task_name |-> n, stderr |-> TRUE, detail |-> NoDetail] : n \in WinNames}
    \cup {[kind |-> "task", task_name |-> n, stderr |-> FALSE, detail |-> d] : n \in WinNames, d \in WinDetails}

SeqsUpTo(S, n) == UNION {[1..k -> S] : k \in 0..n}

\* The answers of the host to one call: an exception inside the call, a
\* non-empty stderr of the listing command, or its stdout lines.
HostAnswers(plat) ==
    {[kind |-> "raise", exc |-> e, lines |-> <<>>] : e \in Exceptions}
    \cup {[kind |-> "stderr", exc |-> None, lines |-> <<>>]}
    \cup {[kind |-> "stdout", exc |-> None, lines |-> l] :
            l \in IF plat = "Windows" THEN SeqsUpTo(WinLines, MaxTasks)
                  ELSE IF plat = "Linux" THEN SeqsUpTo(CronLines, MaxTasks)
                  ELSE {<<>>}}

\* -------------------------------------------------------------------- state
VARIABLES
    platform,        \* platform.system(), fixed for the life of the process
    pc,              \* position of monitor_scheduled_tasks
    previous_tasks,  \* local of monitor_scheduled_tasks; None before the first call returns
    current_tasks,   \* local of monitor_scheduled_tasks; None before it is assigned
    events,          \* change events logged in the latest loop iteration
    collect_errors,  \* did the latest get_scheduled_tasks call log an error
    exit_code,       \* exit status of the process, NotExited while it runs
    caught,          \* the exception the latest get_scheduled_tasks call caught and logged, or None
    replayed,        \* history: the names of the first snapshot with every added/removed event applied
    changed,         \* history: the watched names that appeared or disappeared between two snapshots
    reports,         \* history: per watched name, the added/removed events since its presence last changed
    last_good,       \* history: the latest snapshot collected before this iteration began
    failures         \* history: failed iterations since last_good (saturating)

vars == <<platform, pc, previous_tasks, current_tasks, events, collect_errors,
          exit_code, caught, replayed, changed, reports, last_good, failures>>

\* The history variables that only the comparison of two snapshots updates.
eventHistory == <<replayed, changed, reports>>

\* The states of the poll loop in the words of the specification.
Initializing == pc = "initializing"
Running == pc \in {"sleeping", "collecting", "diffing"}
Stopped == pc = "stopped"
Failed == pc = "failed"

\* ------------------------------------------------------ get_scheduled_tasks
RECURSIVE ParseWindows(_)
\* Windows branch, lines 44-83: build the task list from the listing lines.
ParseWindows(lines) ==
    IF lines = <<>> THEN <<>>
    ELSE LET line == Head(lines)
             rest == ParseWindows(Tail(lines))
         IN  IF line.kind = "header" THEN rest
             ELSE IF line.kind = "blank" THEN rest
             ELSE IF line.stderr THEN rest
             ELSE <<[task_name |-> line.task_name,
                     last_run_time |-> line.detail.last_run_time,
                     task_path |-> line.detail.task_path,
                     state |-> line.detail.state,
                     actions |-> line.detail.actions]>> \o rest

RECURSIVE ParseCron_bytrigger(_)
\* ParseCron naming a task by its schedule instead of its command.
ParseCron_bytrigger(lines) ==
    IF lines = <<>> THEN <<>>
    ELSE LET line == Head(lines)
             rest == ParseCron_bytrigger(Tail(lines))
         IN  IF line.kind = "job"
             THEN <<[task_name |-> line.trigger_time,
                     trigger_time |-> line.trigger_time,
                     command |-> line.command]>> \o rest
             ELSE rest

RECURSIVE ParseCron(_)
\* Linux branch, lines 93-105: build the task list from the crontab lines.
ParseCron(lines) ==
    IF lines = <<>> THEN <<>>
    ELSE LET line == Head(lines)
             rest == ParseCron(Tail(lines))
         IN  IF line.kind = "job"
             THEN <<[task_name |-> line.command,
                     trigger_time |-> line.trigger_time,
                     command |-> line.command]>> \o rest
             ELSE rest

\* The value get_scheduled_tasks() returns: a list of task records, or None.
get_scheduled_tasks(plat, answer) ==
    IF answer.kind = "raise" THEN None
    ELSE IF plat = "Windows"
         THEN IF answer.kind = "stderr" THEN None ELSE ParseWindows(answer.lines)
    ELSE IF plat = "Linux"
         THEN IF answer.kind = "stderr" THEN None ELSE ParseCron(answer.lines)
    ELSE None

\* CaughtInside with the handler of lines 113-115 missing.
CaughtInside_narrow(exc) == exc = "FileNotFoundError"

\* Lines 110-115: the except clauses of get_scheduled_tasks catch
\* FileNotFoundError and every other Exception.
CaughtInside(exc) == exc = "FileNotFoundError" \/ exc \in Exceptions

\* The call raises instead of returning: an exception no clause caught.
Propagates(answer) == answer.kind = "raise" /\ ~CaughtInside(answer.exc)

\* The exception the call caught and logged, None when there was none.
CaughtException(answer) == IF answer.kind = "raise" THEN answer.exc ELSE None

\* Did get_scheduled_tasks() log an error (logging.error) during the call.
LoggedError(plat, answer) ==
    \/ answer.kind = "raise"
    \/ plat \notin {"Windows", "Linux"}
    \/ answer.kind = "stderr"
    \/ /\ plat = "Windows"
       /\ \E i \in DOMAIN answer.lines :
            answer.lines[i].kind = "task" /\ answer.lines[i].stderr

\* ------------------------------------------------------------ the diff step
LogKeys == {"task_name", "trigger_time", "command", "last_run_time",
            "task_path", "state", "actions"}

\* task.get(key): None when the key is absent.
Get(task, key) == IF key \in DOMAIN task THEN task[key] ELSE None

\* The fields a log message prints: task.get(key, 'N/A').
LogFields(task) == [k \in LogKeys |-> IF k \in DOMAIN task THEN task[k] ELSE NA]

\* {task['task_name'] for task in tasks}
TaskNames(tasks) == {tasks[i].task_name : i \in DOMAIN tasks}

\* next(task for task in tasks if task['task_name'] == name)
FirstNamed(tasks, name) ==
    tasks[CHOOSE i \in DOMAIN tasks :
            /\ tasks[i].task_name = name
            /\ \A j \in DOMAIN tasks : j < i => tasks[j].task_name # name]

\* AddedEvents without the set difference of line 139.
AddedEvents_all(prev, cur) ==
    {LogFields(FirstNamed(cur, n)) : n \in TaskNames(cur)}

\* Lines 139, 142-146: one "added" message per added name.
AddedEvents(prev, cur) ==
    {LogFields(FirstNamed(cur, n)) : n \in TaskNames(cur) \ TaskNames(prev)}

\* RemovedEvents without the set difference of line 140.
RemovedEvents_all(prev, cur) == TaskNames(prev)

\* RemovedEvents with the operands of line 140 exchanged.
RemovedEvents_swapped(prev, cur) == TaskNames(cur) \ TaskNames(prev)

\* Lines 140, 148-150: one "removed" message per removed name.
RemovedEvents(prev, cur) == TaskNames(prev) \ TaskNames(cur)

\* KeyDiffers comparing the whole record instead of trigger_time and command.
KeyDiffers_record(current_task, previous_task) == current_task # previous_task

\* KeyDiffers comparing last_run_time as well.
KeyDiffers_lastrun(current_task, previous_task) ==
    \/ Get(current_task, "trigger_time") # Get(previous_task, "trigger_time")
    \/ Get(current_task, "command") # Get(previous_task, "command")
    \/ Get(current_task, "last_run_time") # Get(previous_task, "last_run_time")

\* Line 155: the comparison that decides an "updated" message.
KeyDiffers(current_task, previous_task) ==
    \/ Get(current_task, "trigger_time") # Get(previous_task, "trigger_time")
    \/ Get(current_task, "command") # Get(previous_task, "command")

RECURSIVE UpdatedEvents(_, _)
\* Lines 152-158: walk current_tasks in order; one "updated" message for every
\* record whose first namesake in previous_tasks has another trigger or command.
UpdatedEvents(prev, cur) ==
    IF cur = <<>> THEN <<>>
    ELSE LET current_task == Head(cur)
             rest == UpdatedEvents(prev, Tail(cur))
         IN  IF current_task.task_name \in TaskNames(prev)
             THEN LET previous_task == FirstNamed(prev, current_task.task_name)
                  IN  IF KeyDiffers(current_task, previous_task)
                      THEN <<[new |-> LogFields(current_task),
                              old_trigger_time |-> Get(previous_task, "trigger_time"),
                              old_command |-> Get(previous_task, "command")]>> \o rest
                      ELSE rest
             ELSE rest

NoEvents == [added |-> {}, removed |-> {}, updated |-> <<>>]

\* Lines 136-158: everything one successful iteration logs.
Diff(prev, cur) ==
    [added |-> AddedEvents(prev, cur),
     removed |-> RemovedEvents(prev, cur),
     updated |-> UpdatedEvents(prev, cur)]

\* ------------------------------------------------------------------ actions
Init ==
    /\ platform \in Platforms
    /\ pc = "initializing"
    /\ previous_tasks = None
    /\ current_tasks = None
    /\ events = NoEvents
    /\ collect_errors = FALSE
    /\ exit_code = NotExited
    /\ caught = None
    /\ replayed = {}
    /\ changed = {}
    /\ reports = [n \in Watched |-> 0]
    /\ last_good = None
    /\ failures = 0

\* AfterInitFailure without the return of line 125.
AfterInitFailure_continue == "sleeping"

\* Where a failed initial collection leaves the loop (lines 123-125: return).
AfterInitFailure == "failed"

\* AtInitialCall re-entered after a failed start.
AtInitialCall_restart == pc \in {"initializing", "failed"}

\* Line 122 runs once, when monitor_scheduled_tasks is entered.
AtInitialCall == pc = "initializing"

\* Lines 163-164 and 166-180: an exception that reaches the handler of
\* monitor_scheduled_tasks is logged, the function returns and main returns.
Crash ==
    /\ pc' = "crashed"
    /\ exit_code' = 0

\* Lines 122-125: the initial collection.
InitCollect ==
    /\ AtInitialCall
    /\ \E answer \in HostAnswers(platform) :
         IF Propagates(answer)
         THEN /\ Crash
              /\ UNCHANGED <<previous_tasks, last_good, collect_errors, caught, replayed>>
         ELSE LET result == get_scheduled_tasks(platform, answer)
              IN  /\ previous_tasks' = result
                  /\ last_good' = result
                  /\ replayed' = IF result = None THEN {} ELSE {result[i].task_name : i \in DOMAIN result}
                  /\ collect_errors' = LoggedError(platform, answer)
                  /\ caught' = CaughtException(answer)
                  /\ IF result = None
                     THEN /\ pc' = AfterInitFailure
                          /\ exit_code' = IF AfterInitFailure = "failed" THEN 0 ELSE exit_code
                     ELSE /\ pc' = "sleeping"
                          /\ exit_code' = exit_code
    /\ UNCHANGED <<platform, current_tasks, events, failures, changed, reports>>

\* Line 128: time.sleep(60) returns and the next collection starts.
Wake ==
    /\ pc = "sleeping"
    /\ pc' = "collecting"
    /\ events' = NoEvents
    /\ last_good' = IF current_tasks # None THEN current_tasks ELSE last_good
    /\ failures' = IF current_tasks # None THEN 0 ELSE failures
    /\ UNCHANGED <<platform, previous_tasks, current_tasks, collect_errors, exit_code, caught,
                   eventHistory>>

\* PreviousAfterFailure storing the failed result as an empty baseline.
PreviousAfterFailure_reset(prev) == <<>>

\* What a failed collection in the loop does to previous_tasks (line 133:
\* continue, previous_tasks untouched).
PreviousAfterFailure(prev) == prev

\* AfterLoopFailure with return in place of continue.
AfterLoopFailure_return == "failed"

\* Where a failed collection in the loop leaves the loop (line 133: continue).
AfterLoopFailure == "sleeping"

\* Lines 130-133: the collection of one loop iteration.
Collect ==
    /\ pc = "collecting"
    /\ \E answer \in HostAnswers(platform) :
         IF Propagates(answer)
         THEN /\ Crash
              /\ UNCHANGED <<previous_tasks, current_tasks, collect_errors, caught, failures>>
         ELSE LET result == get_scheduled_tasks(platform, answer)
              IN  /\ current_tasks' = result
                  /\ collect_errors' = LoggedError(platform, answer)
                  /\ caught' = CaughtException(answer)
                  /\ IF result = None
                     THEN /\ pc' = AfterLoopFailure
                          /\ previous_tasks' = PreviousAfterFailure(previous_tasks)
                          /\ failures' = IF failures < MaxFailures THEN failures + 1 ELSE failures
                          /\ exit_code' = IF AfterLoopFailure = "failed" THEN 0 ELSE exit_code
                     ELSE /\ pc' = "diffing"
                          /\ UNCHANGED <<previous_tasks, failures, exit_code>>
    /\ UNCHANGED <<platform, events, last_good, eventHistory>>

\* NextPrevious advancing the baseline only when something was reported.
NextPrevious_onchange(prev, cur) == IF Diff(prev, cur) = NoEvents THEN prev ELSE cur

\* NextPrevious without the assignment of line 159.
NextPrevious_keep(prev, cur) == prev

\* Line 159: previous_tasks = current_tasks.
NextPrevious(prev, cur) == cur

\* The bookkeeping of the history variables for one comparison: ev are the
\* events it logged, before and now the names of the two snapshots compared.
Replay(names, ev) == (names \cup {e.task_name : e \in ev.added}) \ ev.removed

CountReports(count, ev, before, now) ==
    [n \in DOMAIN count |->
        LET base == IF (n \in before) = (n \in now) THEN count[n] ELSE 0
            more == IF n \in now THEN (IF \E e \in ev.added : e.task_name = n THEN 1 ELSE 0)
                    ELSE (IF n \in ev.removed THEN 1 ELSE 0)
        IN  IF base + more > 2 THEN 2 ELSE base + more]

\* Lines 136-159: compare, log the changes, and advance the baseline.
DiffAndReport ==
    /\ pc = "diffing"
    /\ events' = Diff(previous_tasks, current_tasks)
    /\ replayed' = Replay(replayed, events')
    /\ changed' = changed \cup {n \in DOMAIN reports :
                        (n \in TaskNames(last_good)) # (n \in TaskNames(current_tasks))}
    /\ reports' = CountReports(reports, events', TaskNames(last_good), TaskNames(current_tasks))
    /\ previous_tasks' = NextPrevious(previous_tasks, current_tasks)
    /\ pc' = "sleeping"
    /\ UNCHANGED <<platform, current_tasks, collect_errors, exit_code, caught, last_good, failures>>

\* Lines 163-164: an exception raised by the comparison or the logging of one
\* iteration (any Exception, e.g. MemoryError) ends the loop; taken before
\* the iteration has logged a change.
UnexpectedError ==
    /\ pc = "diffing"
    /\ Crash
    /\ UNCHANGED <<platform, previous_tasks, current_tasks, events, collect_errors,
                   caught, last_good, failures, eventHistory>>

\* Lines 161-162 and 166-180: KeyboardInterrupt is raised wherever the main
\* thread is; neither except clause of get_scheduled_tasks catches it, the
\* handler of monitor_scheduled_tasks logs and returns, and main returns.
KeyboardInterrupt ==
    /\ pc \in {"initializing", "sleeping", "collecting", "diffing"}
    /\ pc' = "stopped"
    /\ exit_code' = 0
    /\ UNCHANGED <<platform, previous_tasks, current_tasks, events, collect_errors,
                   caught, last_good, failures, eventHistory>>

Next ==
    \/ InitCollect
    \/ Wake
    \/ Collect
    \/ DiffAndReport
    \/ UnexpectedError
    \/ KeyboardInterrupt

Spec == Init /\ [][Next]_vars

TypeOK ==
    /\ platform \in Platforms
    /\ pc \in {"initializing", "sleeping", "collecting", "diffing", "stopped", "failed", "crashed"}
    /\ caught \in Exceptions \cup {None}
    /\ exit_code \in {NotExited, 0}
    /\ failures \in 0..MaxFailures
    /\ collect_errors \in BOOLEAN

\* ------------------------------------------------------------- properties
\* A step in which a collection of the loop returns None.
FailedCycleStep == pc = "collecting" /\ pc' # "stopped" /\ current_tasks' = None

\* A step in which the loop compares two snapshots and logs the changes.
DiffStep == pc = "diffing" /\ pc' = "sleeping"

\* A successful iteration has just completed.
CycleDone == pc = "sleeping" /\ current_tasks # None

\* The task names of the messages of one kind.
AddedNames(ev) == {e.task_name : e \in ev.added}
UpdatedNames(ev) == {ev.updated[i].new.task_name : i \in DOMAIN ev.updated}

\* The number of records of a snapshot that carry the name.
Occurrences(tasks, name) == Cardinality({i \in DOMAIN tasks : tasks[i].task_name = name})

\* C1 - Baseline preservation: a failed collection leaves previous_tasks as
\* it was, and the events of the next successful iteration are the diff of
\* the last snapshot collected before the failures and the new snapshot.
C1_BaselinePreservation ==
    /\ [][FailedCycleStep => previous_tasks' = previous_tasks]_vars
    /\ [](CycleDone => events = Diff(last_good, current_tasks))

C1_Witness ==
    /\ CycleDone
    /\ failures >= 1
    /\ events # NoEvents
    /\ events = Diff(last_good, current_tasks)

\* C2 - Added/removed complementarity: the names reported as added are the
\* names of current_tasks that are not names of previous_tasks, the names
\* reported as removed are the names of previous_tasks that are not names of
\* current_tasks; an empty previous_tasks gives every current name as added
\* and nothing removed, an empty current_tasks every previous name as removed.
C2_Complementarity ==
    [][DiffStep =>
        /\ \A n \in Commands \cup WinNames :
             /\ n \in AddedNames(events') <=>
                  /\ \E i \in DOMAIN current_tasks : current_tasks[i].task_name = n
                  /\ \A j \in DOMAIN previous_tasks : previous_tasks[j].task_name # n
             /\ n \in events'.removed <=>
                  /\ \E i \in DOMAIN previous_tasks : previous_tasks[i].task_name = n
                  /\ \A j \in DOMAIN current_tasks : current_tasks[j].task_name # n
        /\ AddedNames(events') \cup events'.removed \subseteq Commands \cup WinNames
        /\ Cardinality(events'.added) = Cardinality(AddedNames(events'))
        /\ \A e \in events'.added :
             \E i \in DOMAIN current_tasks : e = LogFields(current_tasks[i])
        /\ previous_tasks = <<>> =>
             /\ AddedNames(events') = TaskNames(current_tasks)
             /\ events'.removed = {}
        /\ current_tasks = <<>> => events'.removed = TaskNames(previous_tasks)
    ]_vars

C2_Witness ==
    /\ CycleDone
    /\ events.added # {}
    /\ events.removed # {}
    /\ AddedNames(events) = TaskNames(current_tasks) \ TaskNames(last_good)
    /\ events.removed = TaskNames(last_good) \ TaskNames(current_tasks)

\* C3 - Update sensitivity: for a name that one record of previous_tasks and
\* one record of current_tasks carry, an updated event is logged exactly when
\* trigger_time or command differs between the two records; a difference in
\* last_run_time, state, task_path or actions alone logs none.
C3_UpdateSensitivity ==
    [][DiffStep =>
        \A n \in TaskNames(previous_tasks) \cap TaskNames(current_tasks) :
            (Occurrences(previous_tasks, n) = 1 /\ Occurrences(current_tasks, n) = 1) =>
                LET old == FirstNamed(previous_tasks, n)
                    new == FirstNamed(current_tasks, n)
                IN  n \in UpdatedNames(events') <=>
                        \/ Get(new, "trigger_time") # Get(old, "trigger_time")
                        \/ Get(new, "command") # Get(old, "command")
    ]_vars

C3_Witness ==
    /\ CycleDone
    /\ Len(last_good) = 2 /\ Len(current_tasks) = 2
    /\ TaskNames(last_good) = TaskNames(current_tasks)
    /\ Cardinality(TaskNames(current_tasks)) = 2
    /\ Len(events.updated) = 1
    /\ events.updated[1].old_trigger_time # events.updated[1].new.trigger_time

\* C4 - Diff symmetry (as claimed): an iteration whose current_tasks equals
\* its previous_tasks logs no added, no removed and no updated event, also
\* when two records of the snapshot share a task_name.
C4_DiffSymmetry ==
    [][(DiffStep /\ previous_tasks = current_tasks) => events' = NoEvents]_vars

\* C5 - Initialization fatality: when the initial collection returns None the
\* loop is Failed and stays Failed; it has not slept, collected again or
\* logged a change event, and Failed is entered from nowhere else.
C5_InitFatality ==
    /\ [][(pc = "initializing" /\ pc' # "stopped" /\ previous_tasks' = None)
            => pc' = "failed"]_vars
    /\ [](previous_tasks = None => pc \in {"initializing", "stopped", "failed"})
    /\ [](pc = "failed" =>
            /\ previous_tasks = None
            /\ current_tasks = None
            /\ events = NoEvents
            /\ failures = 0)
    /\ [][pc = "failed" => pc' = "failed"]_vars
    /\ [][pc' = "failed" => pc \in {"initializing", "failed"}]_vars

C5_Witness ==
    /\ pc = "failed"
    /\ collect_errors
    /\ previous_tasks = None

\* C6 - Failure tolerance in Running: a failed collection in the loop logs no
\* change event, keeps previous_tasks, leaves the loop waiting for the next
\* interval, after which it collects again; no run of failures ends in Failed.
C6_FailureTolerance ==
    /\ [][FailedCycleStep =>
            /\ pc' = "sleeping"
            /\ events' = NoEvents
            /\ previous_tasks' = previous_tasks
            /\ exit_code' = NotExited]_vars
    /\ [][(pc = "sleeping" /\ pc' # "sleeping" /\ pc' # "stopped") => pc' = "collecting"]_vars
    /\ [](failures >= 1 => pc # "failed")

C6_Witness ==
    /\ pc = "collecting"
    /\ failures >= 2
    /\ current_tasks = None
    /\ previous_tasks # None

\* C7 - Baseline advance: after every successful iteration previous_tasks is
\* the snapshot just collected, whether or not anything was logged, so every
\* diff is taken against the latest snapshot collected before it.
C7_BaselineAdvance ==
    /\ CycleDone => previous_tasks = current_tasks
    /\ pc = "diffing" => previous_tasks = last_good

C7_Witness ==
    /\ CycleDone
    /\ events = NoEvents
    /\ last_good # current_tasks
    /\ previous_tasks = current_tasks

\* C8 - Cancellation point (as claimed): the loop becomes Stopped only from
\* the interval wait, never while a collection is in progress and never from
\* Initializing.
C8_CancellationPoint ==
    [][(pc' = "stopped" /\ pc # "stopped") => pc = "sleeping"]_vars

\* C9 - Exit code (as claimed): the exit code is 0 when the loop is Stopped
\* and not 0 when the loop is Failed.
C9_ExitCode ==
    /\ pc = "stopped" => exit_code = 0
    /\ pc = "failed" => exit_code # 0

\* The latest call of get_scheduled_tasks returned a snapshot, which is now
\* previous_tasks or an operand of the diff.
SnapshotInHand ==
    \/ pc = "diffing"
    \/ CycleDone
    \/ pc \in {"sleeping", "collecting"} /\ current_tasks = None /\ failures = 0

\* C10 - No partial snapshots (as claimed): a snapshot that is diffed or
\* stored as previous_tasks comes from a collection in which no step failed.
C10_NoPartialSnapshot == SnapshotInHand => ~collect_errors

\* The last record of a snapshot that carries the name.
LastNamed(tasks, name) ==
    tasks[CHOOSE i \in DOMAIN tasks :
            /\ tasks[i].task_name = name
            /\ \A j \in DOMAIN tasks : j > i => tasks[j].task_name # name]

\* C11 - Duplicate identities, last-seen wins (as claimed): the record an
\* added event carries is the last record of current_tasks with that name,
\* and a name gets an updated event exactly when trigger_time or command
\* differs between the last record of that name in previous_tasks and the
\* last record of that name in current_tasks.
C11_LastSeenWins ==
    [][DiffStep =>
        /\ \A e \in events'.added : e = LogFields(LastNamed(current_tasks, e.task_name))
        /\ \A n \in TaskNames(previous_tasks) \cap TaskNames(current_tasks) :
             LET old == LastNamed(previous_tasks, n)
                 new == LastNamed(current_tasks, n)
             IN  n \in UpdatedNames(events') <=>
                     \/ Get(new, "trigger_time") # Get(old, "trigger_time")
                     \/ Get(new, "command") # Get(old, "command")
    ]_vars

\* C12 - Disjoint groups: in every iteration no task name is reported in two
\* of the groups added, removed and updated.
C12_DisjointGroups ==
    [][DiffStep =>
        /\ AddedNames(events') \cap events'.removed = {}
        /\ AddedNames(events') \cap UpdatedNames(events') = {}
        /\ events'.removed \cap UpdatedNames(events') = {}
    ]_vars

C12_Witness ==
    /\ CycleDone
    /\ events.added # {}
    /\ events.updated # <<>>
    /\ AddedNames(events) \cap UpdatedNames(events) = {}

\* C13 - Terminal states: once the loop is Stopped or Failed (or has ended
\* through the handler of an unexpected exception) nothing happens any more:
\* no collection, no wait, no event, no change of previous_tasks, and the
\* loop never leaves that state.
C13_TerminalStates ==
    [][(pc \in {"stopped", "failed", "crashed"}) =>
        /\ pc' = pc
        /\ previous_tasks' = previous_tasks
        /\ current_tasks' = current_tasks
        /\ events' = events
        /\ collect_errors' = collect_errors
        /\ caught' = caught
        /\ (exit_code' = exit_code)
    ]_vars

C13_Witness ==
    /\ pc = "stopped"
    /\ previous_tasks # None
    /\ events # NoEvents
    /\ exit_code = 0

\* A step in which a collection of the loop ends with a defect of the program
\* raised inside get_scheduled_tasks.
DefectInCollectionStep ==
    pc = "collecting" /\ pc' # "stopped" /\ (caught' \in Defects \/ pc' = "crashed")

\* A step in which the comparison and logging of an iteration ends with an
\* exception.
DefectInDiffStep == pc = "diffing" /\ pc' # "sleeping" /\ pc' # "stopped"

\* C14 - Fail-fast for defects (as claimed): a defect raised during an
\* iteration, inside the collection call or inside the comparison and
\* logging, ends the process; the loop does not go on to the next interval.
C14_FailFast ==
    [][(DefectInCollectionStep \/ DefectInDiffStep) =>
        /\ pc' = "crashed"
        /\ (exit_code' # NotExited)
    ]_vars

\* C14 (amended) - a defect raised inside the collection call is caught and
\* logged there and the iteration is handled as a failed collection: no
\* change event, previous_tasks kept, the loop waits for the next interval.
\* Only an exception raised by the comparison and logging of the iteration
\* ends the process.
C14_DefectHandling ==
    /\ [][DefectInCollectionStep =>
            /\ pc' = "sleeping"
            /\ current_tasks' = None
            /\ collect_errors'
            /\ events' = NoEvents
            /\ previous_tasks' = previous_tasks
            /\ exit_code' = NotExited]_vars
    /\ [][DefectInDiffStep =>
            /\ pc' = "crashed"
            /\ exit_code' # NotExited
            /\ events' = NoEvents]_vars
    /\ [](pc = "crashed" => exit_code # NotExited /\ current_tasks # None)

C14_Witness ==
    /\ pc = "collecting"
    /\ caught \in Defects
    /\ current_tasks = None
    /\ previous_tasks # None
    /\ failures >= 1
    /\ exit_code = NotExited

\* C15 - Event replay: whenever the loop holds a baseline, the names of
\* previous_tasks are the names of the first snapshot with the names of all
\* added events so far inserted and the names of all removed events so far
\* deleted, whatever failed collections happened in between.
C15_EventReplay == previous_tasks # None => TaskNames(previous_tasks) = replayed

C15_Witness ==
    /\ CycleDone
    /\ failures >= 1
    /\ events.added # {}
    /\ events.removed # {}
    /\ TaskNames(previous_tasks) = replayed
    /\ replayed # TaskNames(last_good)

\* C16 - Exactly-once reporting: a name that is not in the last collected
\* snapshot and is in the next one gets its added event in that iteration,
\* however many failed iterations lie in between, and no further added event
\* while it stays present; a name that disappears gets its removed event in
\* that iteration and none while it stays absent. A name whose presence never
\* changed has no such event, and a failed iteration logs none.
C16_ExactlyOnce ==
    /\ [](\A n \in Watched : reports[n] = IF n \in changed THEN 1 ELSE 0)
    /\ [][DiffStep =>
            \A n \in Watched :
                /\ (n \notin TaskNames(last_good) /\ n \in TaskNames(current_tasks))
                      => Cardinality({e \in events'.added : e.task_name = n}) = 1
                /\ (n \in TaskNames(last_good) /\ n \notin TaskNames(current_tasks))
                      => n \in events'.removed
       ]_vars
    /\ [][FailedCycleStep => (events' = NoEvents /\ reports' = reports)]_vars

C16_Witness ==
    /\ CycleDone
    /\ failures >= 1
    /\ "backup.sh" \in changed
    /\ reports["backup.sh"] = 1
    /\ "backup.sh" \in TaskNames(last_good)
    /\ "backup.sh" \in TaskNames(current_tasks)
    /\ last_good # current_tasks

\* The records of a snapshot that carry the name, in their order.
RecordsNamed(tasks, name) == SelectSeq(tasks, LAMBDA t : t.task_name = name)

\* The names that the events of one iteration report.
ReportedNames(ev) == AddedNames(ev) \cup ev.removed \cup UpdatedNames(ev)

\* C17 - Silent baseline (as claimed): the initial collection logs no change
\* event, and an iteration logs events only for names whose records differ
\* between the two successive snapshots, so that a task present from the
\* start and never changed is never reported.
C17_SilentBaseline ==
    /\ [][(pc = "initializing") => events' = NoEvents]_vars
    /\ [][DiffStep =>
            \A n \in ReportedNames(events') :
                RecordsNamed(previous_tasks, n) # RecordsNamed(current_tasks, n)
       ]_vars

\* C18 - Cron identity coupling: on Linux every updated event reports another
\* trigger_time and the same command; a command that is in no record of the
\* new snapshot any more is reported removed, a command that was in no record
\* of the old snapshot is reported added, and neither is reported updated.
C18_CronIdentity ==
    [][(DiffStep /\ platform = "Linux") =>
        /\ \A i \in DOMAIN events'.updated :
             /\ events'.updated[i].new.command = events'.updated[i].old_command
             /\ events'.updated[i].new.trigger_time # events'.updated[i].old_trigger_time
        /\ \A i \in DOMAIN previous_tasks :
             (\A j \in DOMAIN current_tasks : current_tasks[j].command # previous_tasks[i].command)
                => /\ previous_tasks[i].command \in events'.removed
                   /\ previous_tasks[i].command \notin UpdatedNames(events')
        /\ \A j \in DOMAIN current_tasks :
             (\A i \in DOMAIN previous_tasks : previous_tasks[i].command # current_tasks[j].command)
                => /\ \E e \in events'.added : e.command = current_tasks[j].command
                   /\ current_tasks[j].command \notin UpdatedNames(events')
    ]_vars

C18_Witness ==
    /\ platform = "Linux"
    /\ CycleDone
    /\ Len(last_good) = 1 /\ Len(current_tasks) = 1
    /\ last_good[1].trigger_time = current_tasks[1].trigger_time
    /\ last_good[1].command # current_tasks[1].command
    /\ events.removed = {last_good[1].command}
    /\ AddedNames(events) = {current_tasks[1].command}
    /\ events.updated = <<>>

====
